---- MODULE Spec2Model ----
(***************************************************************************)
(* Model of src/etf_monitor.py: the ETFHoldingsMonitor class (fetch, save, *)
(* load previous, compare, report) and the main() entry point.             *)
(***************************************************************************)
EXTENDS Integers, Sequences, FiniteSets, TLC

(***************************************************************************)
(* Bounds of the model.                                                    *)
(***************************************************************************)
\* weight literals carry this many decimal places ("0.0101" needs four)
DecimalPlaces == 4
\* doubles are written in a binary fixed-point frame of IntLimbs integer and
\* FracLimbs fractional limbs of LimbBits bits each
LimbBits == 8
IntLimbs == 1
FracLimbs == 9

(***************************************************************************)
(* Python floats: IEEE-754 binary64, 53 significant bits, round to nearest *)
(* ties to even.  A non-negative double is written exactly, as the         *)
(* sequence of its limbs (most significant first) in the fixed-point       *)
(* frame; every double the model meets (a decimal literal of DecimalPlaces *)
(* places, or a difference of two such) fits the frame exactly.            *)
(***************************************************************************)
MantissaBits == 53
Scale == 10 ^ DecimalPlaces
LimbBase == 2 ^ LimbBits
Limbs == IntLimbs + FracLimbs
FrameBits == Limbs * LimbBits

\* bit i of x, 1 <= i <= FrameBits, most significant first
Bit(x, i) ==
    (x[((i - 1) \div LimbBits) + 1] \div (2 ^ (LimbBits - 1 - ((i - 1) % LimbBits)))) % 2

FirstOne(x) ==
    IF \A k \in 1..Limbs : x[k] = 0 THEN 0
    ELSE LET t == CHOOSE k \in 1..Limbs : x[k] # 0 /\ \A j \in 1..(k - 1) : x[j] = 0
         IN  CHOOSE i \in ((t - 1) * LimbBits + 1)..(t * LimbBits) :
                Bit(x, i) = 1 /\ \A j \in ((t - 1) * LimbBits + 1)..(i - 1) : Bit(x, j) = 0

RECURSIVE IntToLimbs(_, _)
\* the k low limbs of the natural v
IntToLimbs(v, k) ==
    IF k = 0 THEN <<>> ELSE Append(IntToLimbs(v \div LimbBase, k - 1), v % LimbBase)

ZeroFloat == IntToLimbs(0, Limbs)

RECURSIVE FracToLimbs(_, _)
\* the first k limbs of the binary expansion of r / Scale (0 <= r < Scale),
\* then <<remainder>>: long division
FracToLimbs(r, k) ==
    IF k = 0 THEN <<r>>
    ELSE <<(r * LimbBase) \div Scale>> \o FracToLimbs((r * LimbBase) % Scale, k - 1)

RECURSIVE AddFrom(_, _, _, _)
\* limbs k downwards of x + y, with a carry
AddFrom(x, y, k, carry) ==
    IF k = 0 THEN <<>>
    ELSE LET t == x[k] + y[k] + carry
         IN  Append(AddFrom(x, y, k - 1, t \div LimbBase), t % LimbBase)

\* the double nearest to the exact value (x, plus a non-zero tail below the
\* frame when sticky): round to nearest, ties to even
RoundToDouble(x, sticky) ==
    LET first == FirstOne(x)
        last  == first + MantissaBits - 1
    IN  IF first = 0 \/ last >= FrameBits THEN x
        ELSE LET guard == Bit(x, last + 1)
                 rest  == sticky \/ \E j \in (last + 2)..FrameBits : Bit(x, j) = 1
                 ll    == ((last - 1) \div LimbBits) + 1
                 unit  == 2 ^ (LimbBits - 1 - ((last - 1) % LimbBits))
                 up    == guard = 1 /\ (rest \/ Bit(x, last) = 1)
                 trunc == [k \in 1..Limbs |->
                              IF k < ll THEN x[k]
                              ELSE IF k = ll THEN (x[k] \div unit) * unit
                              ELSE 0]
                 ulp   == [k \in 1..Limbs |-> IF up /\ k = ll THEN unit ELSE 0]
             IN  AddFrom(trunc, ulp, Limbs, 0)

\* float("<n / Scale written in decimal>"): the correctly rounded double
FloatOfDecimal(n) ==
    LET frac == FracToLimbs(n % Scale, FracLimbs)
    IN  RoundToDouble(IntToLimbs(n \div Scale, IntLimbs) \o SubSeq(frac, 1, FracLimbs),
                      frac[FracLimbs + 1] # 0)

\* a < b on non-negative doubles
FloatLess(a, b) ==
    \E j \in 1..Limbs : a[j] < b[j] /\ \A k \in 1..(j - 1) : a[k] = b[k]

RECURSIVE SubLimbs(_, _, _, _)
\* the exact difference a - b (a >= b), limb k downwards with a borrow
SubLimbs(a, b, k, borrow) ==
    IF k = 0 THEN <<>>
    ELSE LET d == a[k] - b[k] - borrow
         IN  Append(SubLimbs(a, b, k - 1, IF d < 0 THEN 1 ELSE 0),
                    IF d < 0 THEN d + LimbBase ELSE d)

\* the double a - b: the exact difference, correctly rounded; a signed
\* double is [neg, mag]
FloatSub(a, b) ==
    IF FloatLess(a, b)
    THEN [neg |-> TRUE,  mag |-> RoundToDouble(SubLimbs(b, a, Limbs, 0), FALSE)]
    ELSE [neg |-> FALSE, mag |-> RoundToDouble(SubLimbs(a, b, Limbs, 0), FALSE)]

\* abs(x)
FloatAbs(x) == x.mag

(***************************************************************************)
(* Values.  None is Python's None.  A holding row is the sequence of its   *)
(* fields: <<ticker, name, weight, ...>>.  A weight field is the text of a *)
(* decimal literal n / Scale, of nothing, or of something that is no       *)
(* number, each with or without a '%' sign.                                *)
(***************************************************************************)
None == [none |-> TRUE]

Num(n)     == [kind |-> "num",   n |-> n, pct |-> FALSE]    \* "1.0200"
Percent(n) == [kind |-> "num",   n |-> n, pct |-> TRUE]     \* "1.0200%"
Blank      == [kind |-> "empty", n |-> 0, pct |-> FALSE]    \* ""
BarePct    == [kind |-> "empty", n |-> 0, pct |-> TRUE]     \* " %"
NotANumber == [kind |-> "bad",   n |-> 0, pct |-> FALSE]    \* "N/A"

\* str(weight).replace('%', '').strip()
WeightStr(weight) == [kind |-> weight.kind, n |-> weight.n]

\* float(s) raises ValueError
FloatRaises(s) == s.kind = "bad"

\* float(s) if s else 0
ParseWeight(s) == IF s.kind = "empty" THEN ZeroFloat ELSE FloatOfDecimal(s.n)

\* the literal 0.01 of the comparison, in hundredths
ThresholdHundredths == 1
Threshold == FloatOfDecimal((ThresholdHundredths * Scale) \div 100)

(***************************************************************************)
(* compare_holdings                                                        *)
(***************************************************************************)
\* Put as it would be if the first row of a ticker won
PutKeepFirst(info, ticker, value) ==
    [t \in (DOMAIN info) \cup {ticker} |-> IF t \in DOMAIN info THEN info[t] ELSE value]

\* info[ticker] = value
Put(info, ticker, value) ==
    [t \in (DOMAIN info) \cup {ticker} |-> IF t = ticker THEN value ELSE info[t]]

RECURSIVE ExtractFrom(_, _, _)
ExtractFrom(holdings, i, info) ==
    IF i > Len(holdings) THEN info
    ELSE LET h == holdings[i]
         IN  ExtractFrom(holdings, i + 1,
                 IF Len(h) >= 3
                 THEN Put(info, h[1], [name |-> h[2], weight |-> h[3]])
                 ELSE info)

\* extract_info: the rows folded left to right into a dict
extract_info(holdings) == ExtractFrom(holdings, 1, <<>>)

\* the orders in which a set may be iterated
SetOrders(S) ==
    {o \in [1..Cardinality(S) -> S] : \A i, j \in DOMAIN o : i # j => o[i] # o[j]}

\* WeightChangeOf as it would be if the current weight, not the difference,
\* were held against the threshold
WeightChangeOfAbsolute(ticker, current_info, previous_info) ==
    LET curr_weight_str == [kind |-> current_info[ticker].weight.kind,
                            n    |-> current_info[ticker].weight.n]
        prev_weight_str == [kind |-> previous_info[ticker].weight.kind,
                            n    |-> previous_info[ticker].weight.n]
    IN  IF curr_weight_str.kind = "bad" \/ prev_weight_str.kind = "bad" THEN <<>>
        ELSE LET curr_weight == IF curr_weight_str.kind = "empty" THEN ZeroFloat
                                ELSE FloatOfDecimal(curr_weight_str.n)
                 prev_weight == IF prev_weight_str.kind = "empty" THEN ZeroFloat
                                ELSE FloatOfDecimal(prev_weight_str.n)
             IN  IF FloatLess(FloatOfDecimal(Scale \div 100), curr_weight)
                 THEN << [ticker          |-> ticker,
                          name            |-> current_info[ticker].name,
                          previous_weight |-> prev_weight,
                          current_weight  |-> curr_weight,
                          change          |-> FloatSub(curr_weight, prev_weight)] >>
                 ELSE <<>>

\* one iteration of the weight-change loop: the entry appended, if any
WeightChangeOf(ticker, current_info, previous_info) ==
    LET curr_weight_str == WeightStr(current_info[ticker].weight)
        prev_weight_str == WeightStr(previous_info[ticker].weight)
    IN  IF FloatRaises(curr_weight_str) \/ FloatRaises(prev_weight_str) THEN <<>>
        ELSE LET curr_weight == ParseWeight(curr_weight_str)
                 prev_weight == ParseWeight(prev_weight_str)
                 change      == FloatSub(curr_weight, prev_weight)
             IN  IF FloatLess(Threshold, FloatAbs(change))
                 THEN << [ticker          |-> ticker,
                          name            |-> current_info[ticker].name,
                          previous_weight |-> prev_weight,
                          current_weight  |-> curr_weight,
                          change          |-> change] >>
                 ELSE <<>>

RECURSIVE WeightChangesFrom(_, _, _, _)
\* the loop over current_tickers.intersection(previous_tickers), in the
\* order the set is iterated
WeightChangesFrom(order, i, current_info, previous_info) ==
    IF i > Len(order) THEN <<>>
    ELSE WeightChangeOf(order[i], current_info, previous_info)
            \o WeightChangesFrom(order, i + 1, current_info, previous_info)

\* SortInsert as it would be if the sort were not stable: e goes before the
\* elements of equal key
SortInsertBeforeEqual(s, e) ==
    LET k == Cardinality({i \in DOMAIN s :
                 FloatLess(FloatAbs(e.change), FloatAbs(s[i].change))})
    IN  SubSeq(s, 1, k) \o <<e>> \o SubSeq(s, k + 1, Len(s))

\* where sorted(..., reverse=True) puts e among the already sorted s: after
\* every element whose key is not smaller (equal keys keep their order)
SortInsert(s, e) ==
    LET k == Cardinality({i \in DOMAIN s :
                 ~FloatLess(FloatAbs(s[i].change), FloatAbs(e.change))})
    IN  SubSeq(s, 1, k) \o <<e>> \o SubSeq(s, k + 1, Len(s))

RECURSIVE SortedFrom(_, _, _)
SortedFrom(changes, i, acc) ==
    IF i > Len(changes) THEN acc
    ELSE SortedFrom(changes, i + 1, SortInsert(acc, changes[i]))

\* sorted(weight_changes, key=lambda x: abs(x['change']), reverse=True)
SortedByAbsChange(changes) == SortedFrom(changes, 1, <<>>)

\* FirstRunResult as it would be if only the rows extract_info keeps counted
FirstRunResultFullRows(current_holdings) ==
    [status         |-> "first_run",
     message        |-> "No previous data to compare",
     total_holdings |-> Cardinality({i \in DOMAIN current_holdings :
                                        Len(current_holdings[i]) >= 3})]

\* what compare_holdings returns when there is no previous data
FirstRunResult(current_holdings) ==
    [status         |-> "first_run",
     message        |-> "No previous data to compare",
     total_holdings |-> Len(current_holdings)]

\* compare_holdings(current_holdings, previous_data) run on day now; iter
\* gives the orders in which the three ticker sets are iterated
compare_holdings(current_holdings, previous_data, now, iter) ==
    IF previous_data = None
    THEN FirstRunResult(current_holdings)
    ELSE LET current_info   == extract_info(current_holdings)
             previous_info  == extract_info(previous_data.holdings)
             weight_changes == WeightChangesFrom(iter.common, 1, current_info, previous_info)
         IN  [status              |-> "success",
              date                |-> now,
              previous_date       |-> previous_data.date,
              total_holdings      |-> Len(current_holdings),
              new_holdings        |-> [i \in DOMAIN iter.new |->
                                          [ticker |-> iter.new[i],
                                           name   |-> current_info[iter.new[i]].name]],
              removed_holdings    |-> [i \in DOMAIN iter.removed |->
                                          [ticker |-> iter.removed[i],
                                           name   |-> previous_info[iter.removed[i]].name]],
              weight_changes      |-> SortedByAbsChange(weight_changes),
              significant_changes |-> Len(iter.new) + Len(iter.removed) + Len(weight_changes)]

\* the ways the three sets of compare_holdings can be iterated
Iterations(current_holdings, previous_data) ==
    IF previous_data = None THEN {[new |-> <<>>, removed |-> <<>>, common |-> <<>>]}
    ELSE LET current_tickers  == DOMAIN extract_info(current_holdings)
             previous_tickers == DOMAIN extract_info(previous_data.holdings)
         IN  [new     : SetOrders(current_tickers \ previous_tickers),
              removed : SetOrders(previous_tickers \ current_tickers),
              common  : SetOrders(current_tickers \cap previous_tickers)]

(***************************************************************************)
(* generate_report.  The report is the sequence of its lines.              *)
(***************************************************************************)
\* the [:10] of the weight-changes block
TopN == 10

RECURSIVE MulFrom(_, _, _, _)
\* limbs k downwards of x * m, with a carry (x has room for the product)
MulFrom(x, m, k, carry) ==
    IF k = 0 THEN <<>>
    ELSE LET p == x[k] * m + carry
         IN  Append(MulFrom(x, m, k - 1, p \div LimbBase), p % LimbBase)

RECURSIVE LimbsToInt(_, _)
\* the natural written by the first k limbs of x
LimbsToInt(x, k) == IF k = 0 THEN 0 ELSE LimbsToInt(x, k - 1) * LimbBase + x[k]

\* the digits of f"{x:.3f}" for a non-negative double x, as a number of
\* thousandths: the exact value, correctly rounded (ties to even)
Format3(x) ==
    LET wide   == MulFrom(<<0, 0>> \o x, 1000, Limbs + 2, 0)
        whole  == LimbsToInt(wide, IntLimbs + 2)
        top    == wide[IntLimbs + 3]
        below  == \E k \in (IntLimbs + 4)..(Limbs + 2) : wide[k] # 0
        half   == LimbBase \div 2
    IN  IF top > half \/ (top = half /\ (below \/ whole % 2 = 1))
        THEN whole + 1 ELSE whole

\* f"{x:+.3f}" for a signed double
FormatSigned3(x) == [minus |-> x.neg, thousandths |-> Format3(x.mag)]

RECURSIVE HoldingLines(_, _, _)
\* the lines of a new-holdings or removed-holdings block
HoldingLines(holdings, i, tag) ==
    IF i > Len(holdings) THEN <<>>
    ELSE <<[tag |-> tag, ticker |-> holdings[i].ticker]>>
         \o (IF holdings[i].name # ""
             THEN <<[tag |-> "name", name |-> holdings[i].name]>> ELSE <<>>)
         \o HoldingLines(holdings, i + 1, tag)

RECURSIVE ChangeLines(_, _)
\* the lines of the weight-changes block
ChangeLines(changes, i) ==
    IF i > Len(changes) THEN <<>>
    ELSE LET change == changes[i]
         IN  <<[tag    |-> "weight_ticker",
                up     |-> ~change.change.neg /\ change.change.mag # ZeroFloat,
                ticker |-> change.ticker]>>
             \o (IF change.name # ""
                 THEN <<[tag |-> "name", name |-> change.name]>> ELSE <<>>)
             \o <<[tag      |-> "weights",
                   previous |-> Format3(change.previous_weight),
                   current  |-> Format3(change.current_weight),
                   change   |-> FormatSigned3(change.change)]>>
             \o ChangeLines(changes, i + 1)

\* NoticeLines as it would be if the notice went with "nothing listed"
NoticeLinesWhenNothingListed(comparison) ==
    IF /\ comparison.new_holdings = <<>>
       /\ comparison.removed_holdings = <<>>
       /\ comparison.weight_changes = <<>>
    THEN <<[tag |-> "no_changes"]>> ELSE <<>>

\* the closing "no significant changes" notice
NoticeLines(comparison) ==
    IF comparison.significant_changes = 0 THEN <<[tag |-> "no_changes"]>> ELSE <<>>

\* generate_report(comparison), generated on day now
generate_report(comparison, now) ==
    [lines |->
        <<[tag |-> "title"]>>
        \o (IF comparison.status = "first_run"
            THEN <<[tag |-> "report_date_na"],
                   [tag |-> "total_holdings", n |-> comparison.total_holdings],
                   [tag |-> "first_collection"]>>
            ELSE <<[tag |-> "report_date", date |-> comparison.date],
                   [tag |-> "comparing_with", date |-> comparison.previous_date],
                   [tag |-> "total_holdings", n |-> comparison.total_holdings],
                   [tag |-> "total_changes", n |-> comparison.significant_changes]>>
                 \o (IF comparison.new_holdings # <<>>
                     THEN <<[tag |-> "new_header", n |-> Len(comparison.new_holdings)]>>
                          \o HoldingLines(comparison.new_holdings, 1, "new_ticker")
                     ELSE <<>>)
                 \o (IF comparison.removed_holdings # <<>>
                     THEN <<[tag |-> "removed_header", n |-> Len(comparison.removed_holdings)]>>
                          \o HoldingLines(comparison.removed_holdings, 1, "removed_ticker")
                     ELSE <<>>)
                 \o (IF comparison.weight_changes # <<>>
                     THEN <<[tag |-> "weight_header"]>>
                          \o ChangeLines(SubSeq(comparison.weight_changes, 1,
                                 IF Len(comparison.weight_changes) < TopN
                                 THEN Len(comparison.weight_changes) ELSE TopN), 1)
                          \o (IF Len(comparison.weight_changes) > TopN
                              THEN <<[tag |-> "more",
                                      n   |-> Len(comparison.weight_changes) - TopN]>>
                              ELSE <<>>)
                     ELSE <<>>)
                 \o NoticeLines(comparison))
        \o <<[tag |-> "generated", date |-> now]>>]

(***************************************************************************)
(* The store.  The data directory is the set of its files, [name, content];*)
(* a name is [prefix, date], date being the text strftime gives.           *)
(***************************************************************************)
\* the calendar days of the model
FirstDay == 9
DaySpan == 2
MaxDay == FirstDay + DaySpan
Days == FirstDay..MaxDay

\* DateStr as it would be without the zero padding
DateStrUnpadded(day) == IF day < 10 THEN <<day>> ELSE <<day \div 10, day % 10>>

\* strftime("%Y-%m-%d") within one month: the day, zero padded, as its digits
DateStr(day) == <<day \div 10, day % 10>>

\* a < b for two texts of digits, character by character
TextLess(a, b) ==
    \/ \E j \in 1..Len(a) : /\ j <= Len(b)
                            /\ a[j] < b[j]
                            /\ \A k \in 1..(j - 1) : a[k] = b[k]
    \/ Len(a) < Len(b) /\ \A k \in 1..Len(a) : a[k] = b[k]

HoldingsName(date) == [prefix |-> "holdings", date |-> date]
ReportName(date)   == [prefix |-> "report", date |-> date]

\* open(name, 'w') and write: the file is created or overwritten
WriteFile(dir, name, content) ==
    {f \in dir : f.name # name} \cup {[name |-> name, content |-> content]}

\* what json.load gives for a file save_holdings wrote (the timestamp, which
\* nothing reads, is left out)
Snapshot(date, holdings) ==
    [date |-> date, holdings |-> holdings, total_count |-> Len(holdings)]

\* the content of a file json.load cannot parse
Corrupt == [corrupt |-> TRUE]

\* save_holdings(holdings) on day now: the directory afterwards
save_holdings(dir, holdings, now) ==
    IF holdings = <<>> THEN dir
    ELSE WriteFile(dir, HoldingsName(DateStr(now)), Snapshot(DateStr(now), holdings))

\* sorted(self.data_dir.glob("holdings_*.json"), reverse=True)
SortedFiles(dir) ==
    LET names == {f.name : f \in {g \in dir : g.name.prefix = "holdings"}}
    IN  CHOOSE files \in SetOrders(names) :
            \A i, j \in DOMAIN files : i < j => TextLess(files[j].date, files[i].date)

\* load_previous_holdings as it would be if it took the first entry
load_previous_newest(dir) ==
    LET names == {f.name : f \in {g \in dir : g.name.prefix = "holdings"}}
    IN  IF Cardinality(names) < 2 THEN [none |-> TRUE]
        ELSE LET newest == CHOOSE n \in names :
                               \A m \in names \ {n} :
                                   \E j \in 1..Len(m.date) :
                                       /\ m.date[j] < n.date[j]
                                       /\ \A k \in 1..(j - 1) : m.date[k] = n.date[k]
                 data   == (CHOOSE f \in dir : f.name = newest).content
             IN  IF data = [corrupt |-> TRUE] THEN [none |-> TRUE] ELSE data

\* load_previous_holdings()
load_previous_holdings(dir) ==
    LET files == SortedFiles(dir)
    IN  IF Len(files) < 2 THEN None
        ELSE LET prev_file == files[2]
                 data      == (CHOOSE f \in dir : f.name = prev_file).content
             IN  IF data = Corrupt THEN None ELSE data

(***************************************************************************)
(* The fetcher.  A response is what requests.get does: it raises, or it    *)
(* answers with a status code and a body.                                  *)
(***************************************************************************)
Raised             == [raises |-> TRUE]
Answer(code, body) == [status_code |-> code, body |-> body]
NotJson            == [json |-> FALSE]
JsonWithout        == [json |-> TRUE, has_aaData |-> FALSE]
Json(rows)         == [json |-> TRUE, has_aaData |-> TRUE, aaData |-> rows]

\* get_holdings_data as it would be if the status code were not looked at
get_holdings_data_any_status(response) ==
    IF response = [raises |-> TRUE] THEN <<>>
    ELSE IF response.body = [json |-> FALSE] THEN <<>>
    ELSE IF response.body.has_aaData THEN response.body.aaData ELSE <<>>

\* get_holdings_data(): the holdings, or <<>> for None (the caller tests
\* "not current_holdings", which None and an empty list both satisfy)
get_holdings_data(response) ==
    IF response = Raised THEN <<>>
    ELSE IF response.status_code = 200
         THEN IF response.body = NotJson THEN <<>>
              ELSE LET holdings == IF response.body.has_aaData
                                   THEN response.body.aaData ELSE <<>>
                   IN  holdings
         ELSE <<>>

(***************************************************************************)
(* State.                                                                  *)
(***************************************************************************)
VARIABLES
    today,              \* the calendar day datetime.now() gives
    data_dir,           \* the files of the data directory
    response,           \* what requests.get did in the last run
    requests,           \* the requests the last run sent
    current_holdings,   \* the holdings fetched, or given to compare_holdings
    saved_file,         \* the name save_holdings returned, or None
    previous_data,      \* what load_previous_holdings returned
    iter,               \* the orders in which compare_holdings iterated its sets
    comparison,         \* what compare_holdings / run_daily_check returned
    report,             \* what generate_report returned, or None
    exit_msg,           \* the last line main() printed
    pc                  \* the operation performed last

vars == <<today, data_dir, response, requests, current_holdings, saved_file,
          previous_data, iter, comparison, report, exit_msg, pc>>

NoIter == [new |-> <<>>, removed |-> <<>>, common |-> <<>>]

\* sequences over S of length at most n
SeqsUpTo(S, n) == UNION {[1..k -> S] : k \in 0..n}

(***************************************************************************)
(* The inputs the model draws from.                                        *)
(***************************************************************************)
Hundredth == Scale \div 100

\* what the provider may answer with
Feeds ==
    { << <<"A", "Alpha", Num(Scale)>>, <<"B", "Beta", Num(2 * Scale)>> >>,
      << <<"A", "Alpha", Percent(Scale + 2 * Hundredth)>>, <<"C", "", Blank>>, <<"B">> >> }

\* a status other than 200, whatever the body carries
NotFound == Answer(404, Json(<< <<"A", "Alpha", Num(Scale)>> >>))

Responses ==
    {Raised, NotFound, Answer(200, NotJson), Answer(200, JsonWithout),
     Answer(200, Json(<<>>))}
    \cup {Answer(200, Json(f)) : f \in Feeds}

(***************************************************************************)
(* main(): one run of the process.  run_daily_check reads the clock when   *)
(* it saves (1), compares (2), generates the report (3) and names the      *)
(* report file (4); midnight may fall before any of these reads: the reads *)
(* from number midnight on give the next day (5: no midnight in this run). *)
(* A midnight before the first read is a Tick followed by a run without    *)
(* one, so Next draws midnight from 2..5.                                  *)
(***************************************************************************)
ClockRead(k, midnight) == IF k >= midnight THEN today + 1 ELSE today

Main(resp, midnight) ==
    LET holdings == get_holdings_data(resp)
    IN  /\ response' = resp
        /\ requests' = 1
        /\ current_holdings' = holdings
        /\ pc' = "main"
        /\ IF holdings = <<>>
           THEN /\ midnight = 5
                /\ comparison' = None
                /\ exit_msg' = "warning"
                /\ saved_file' = None
                /\ previous_data' = None
                /\ iter' = NoIter
                /\ report' = None
                /\ UNCHANGED <<today, data_dir>>
           ELSE /\ midnight < 5 => today < MaxDay
                /\ LET saved    == save_holdings(data_dir, holdings, ClockRead(1, midnight))
                       previous == load_previous_holdings(saved)
                   IN  /\ saved_file' = HoldingsName(DateStr(ClockRead(1, midnight)))
                       /\ previous_data' = previous
                       /\ iter' \in Iterations(holdings, previous)
                       /\ comparison' = compare_holdings(holdings, previous,
                                            DateStr(ClockRead(2, midnight)), iter')
                       /\ report' = generate_report(comparison',
                                        DateStr(ClockRead(3, midnight)))
                       /\ data_dir' = WriteFile(saved,
                                          ReportName(DateStr(ClockRead(4, midnight))),
                                          report')
                       /\ today' = ClockRead(4, midnight)
                       /\ exit_msg' = IF comparison' # None THEN "success" ELSE "warning"

\* a day passes between two runs
Tick ==
    /\ today < MaxDay
    /\ today' = today + 1
    /\ UNCHANGED <<data_dir, response, requests, current_holdings, saved_file,
                   previous_data, iter, comparison, report, exit_msg, pc>>

\* a fresh checkout: __init__ creates the empty data directory
Init ==
    /\ today = FirstDay
    /\ data_dir = {}
    /\ response = None
    /\ requests = 0
    /\ current_holdings = <<>>
    /\ saved_file = None
    /\ previous_data = None
    /\ iter = NoIter
    /\ comparison = None
    /\ report = None
    /\ exit_msg = ""
    /\ pc = "start"

Next ==
    \/ \E resp \in Responses, midnight \in 2..5 : Main(resp, midnight)
    \/ Tick

Spec == Init /\ [][Next]_vars

(***************************************************************************)
(* The store on its own: load_previous_holdings (and whole runs) over any  *)
(* directory of snapshot files, readable or not.                           *)
(***************************************************************************)
FileChoices(day) ==
    {{}} \cup {{[name |-> HoldingsName(DateStr(day)), content |-> c]} :
                 c \in {Snapshot(DateStr(day), f) : f \in Feeds} \cup {Corrupt}}

RECURSIVE DirectoriesUpTo(_)
DirectoriesUpTo(day) ==
    IF day < FirstDay THEN {{}}
    ELSE {dir \cup file : dir \in DirectoriesUpTo(day - 1), file \in FileChoices(day)}

Directories == DirectoriesUpTo(MaxDay)

LoadPrevious ==
    /\ previous_data' = load_previous_holdings(data_dir)
    /\ pc' = "load"
    /\ UNCHANGED <<today, data_dir, response, requests, current_holdings, saved_file,
                   iter, comparison, report, exit_msg>>

InitStore ==
    /\ today \in Days
    /\ data_dir \in Directories
    /\ response = None
    /\ requests = 0
    /\ current_holdings = <<>>
    /\ saved_file = None
    /\ previous_data = None
    /\ iter = NoIter
    /\ comparison = None
    /\ report = None
    /\ exit_msg = ""
    /\ pc = "start"

\* one call on the directory as found: load_previous_holdings, or a whole run
NextStore ==
    \/ pc = "start" /\ LoadPrevious
    \/ pc = "start" /\ \E resp \in Responses, midnight \in 1..5 : Main(resp, midnight)

SpecStore == InitStore /\ [][NextStore]_vars

(***************************************************************************)
(* compare_holdings on its own, over three families of inputs.             *)
(***************************************************************************)
MaxRows == 2
MaxStep == 2
MaxHundredths == 8

\* rows of every shape: full and short, duplicate tickers, names that
\* differ, weights that parse and weights that do not
ShapeRows ==
    { <<"A", "Alpha", Num(Scale)>>,
      <<"A", "Alpha Inc", Percent(Scale + 2 * Hundredth)>>,
      <<"B", "Beta", NotANumber>>,
      <<"B", "", Blank>>,
      <<"A", "Alpha">>,
      <<"B">> }

InitShape ==
    /\ current_holdings \in SeqsUpTo(ShapeRows, MaxRows)
    /\ previous_data \in {None} \cup
          {Snapshot(DateStr(FirstDay), h) : h \in SeqsUpTo(ShapeRows, MaxRows)}

\* three tickers held on both days, each weight moved by some hundredths
SortTickers == <<"A", "B", "C">>

InitSort ==
    \E step \in [DOMAIN SortTickers -> (0 - MaxStep)..MaxStep] :
        /\ current_holdings =
              [i \in DOMAIN SortTickers |->
                  <<SortTickers[i], "", Num(Scale + step[i] * Hundredth)>>]
        /\ previous_data = Snapshot(DateStr(FirstDay),
              [i \in DOMAIN SortTickers |-> <<SortTickers[i], "", Num(Scale)>>])

\* one ticker whose weight moves by 0.01 or by one unit less or more
ThresholdDeltas ==
    {0, Hundredth - 1, Hundredth, Hundredth + 1,
     0 - (Hundredth - 1), 0 - Hundredth, 0 - (Hundredth + 1)}

InitThreshold ==
    \E h \in 0..MaxHundredths, delta \in ThresholdDeltas :
        /\ h * Hundredth + delta >= 0
        /\ previous_data \in
              {Snapshot(DateStr(FirstDay), << <<"A", "Alpha", w>> >>) :
                  w \in {Num(h * Hundredth)} \cup (IF h = 0 THEN {Blank} ELSE {})}
        /\ current_holdings \in
              {<< <<"A", "Alpha", w>> >> :
                  w \in {Num(h * Hundredth + delta), Percent(h * Hundredth + delta)}
                        \cup (IF h * Hundredth + delta = 0 THEN {BarePct} ELSE {})}

InitCompare ==
    /\ today = FirstDay + 1
    /\ data_dir = {}
    /\ response = None
    /\ requests = 0
    /\ saved_file = None
    /\ iter = NoIter
    /\ comparison = None
    /\ report = None
    /\ exit_msg = ""
    /\ pc = "input"
    /\ (InitShape \/ InitSort \/ InitThreshold)

Compare ==
    /\ pc = "input"
    /\ iter' \in Iterations(current_holdings, previous_data)
    /\ comparison' = compare_holdings(current_holdings, previous_data, DateStr(today), iter')
    /\ pc' = "compare"
    /\ UNCHANGED <<today, data_dir, response, requests, current_holdings, saved_file,
                   previous_data, report, exit_msg>>

SpecCompare == InitCompare /\ [][Compare]_vars

(***************************************************************************)
(* generate_report on its own, over comparison results of every shape.     *)
(***************************************************************************)
MaxListed == 2

SampleHoldings == {[ticker |-> "A", name |-> "Alpha"], [ticker |-> "B", name |-> ""]}

SampleChange(ticker, name, previous, current) ==
    [ticker          |-> ticker,
     name            |-> name,
     previous_weight |-> FloatOfDecimal(previous),
     current_weight  |-> FloatOfDecimal(current),
     change          |-> FloatSub(FloatOfDecimal(current), FloatOfDecimal(previous))]

SampleChanges ==
    {SampleChange("C", "Gamma", Scale, Scale + 2 * Hundredth),
     SampleChange("D", "", 2 * Scale, Scale)}

LongChanges ==
    [i \in 1..(TopN + 1) |-> SampleChange("C", "Gamma", Scale, Scale + 2 * Hundredth)]

ReportInputs ==
    [status              : {"success"},
     date                : {DateStr(FirstDay + 1)},
     previous_date       : {DateStr(FirstDay)},
     total_holdings      : {MaxListed},
     new_holdings        : SeqsUpTo(SampleHoldings, MaxListed),
     removed_holdings    : SeqsUpTo(SampleHoldings, MaxListed),
     weight_changes      : SeqsUpTo(SampleChanges, MaxListed) \cup {LongChanges},
     significant_changes : 0..(MaxListed + 1)]
    \cup
    [status         : {"first_run"},
     message        : {"No previous data to compare"},
     total_holdings : 0..MaxListed]

InitReport ==
    /\ today = FirstDay + 1
    /\ data_dir = {}
    /\ response = None
    /\ requests = 0
    /\ current_holdings = <<>>
    /\ saved_file = None
    /\ previous_data = None
    /\ iter = NoIter
    /\ comparison \in ReportInputs
    /\ report = None
    /\ exit_msg = ""
    /\ pc = "input"

Report ==
    /\ pc = "input"
    /\ report' = generate_report(comparison, DateStr(today))
    /\ pc' = "report"
    /\ UNCHANGED <<today, data_dir, response, requests, current_holdings, saved_file,
                   previous_data, iter, comparison, exit_msg>>

SpecReport == InitReport /\ [][Report]_vars
(***************************************************************************)
(* Properties of compare_holdings, stated on the inputs and the result     *)
(* without the operators of the model.                                     *)
(***************************************************************************)
Compared == pc = "compare" /\ previous_data # None

\* the rows of at least 3 fields
FullRows(holdings) == {i \in DOMAIN holdings : Len(holdings[i]) >= 3}
TickersOf(holdings) == {holdings[i][1] : i \in FullRows(holdings)}

\* the last row of at least 3 fields that carries the ticker
LastRow(holdings, ticker) ==
    holdings[CHOOSE i \in FullRows(holdings) :
                /\ holdings[i][1] = ticker
                /\ \A j \in FullRows(holdings) : holdings[j][1] = ticker => j <= i]

Listed(entries) == {entries[i].ticker : i \in DOMAIN entries}

ListsExactly(entries, tickers, holdings) ==
    /\ Listed(entries) = tickers
    /\ Len(entries) = Cardinality(tickers)
    /\ \A i \in DOMAIN entries :
           entries[i].name = LastRow(holdings, entries[i].ticker)[2]

\* C1: against a previous snapshot, new_holdings lists exactly the tickers
\* (of rows with at least 3 fields) that are in current and not in previous,
\* removed_holdings exactly those in previous and not in current, no ticker
\* is in both, and each entry carries the name of the last row of its
\* ticker in the snapshot that holds it.
C1_NewAndRemoved ==
    Compared =>
        /\ comparison.status = "success"
        /\ ListsExactly(comparison.new_holdings,
                        TickersOf(current_holdings) \ TickersOf(previous_data.holdings),
                        current_holdings)
        /\ ListsExactly(comparison.removed_holdings,
                        TickersOf(previous_data.holdings) \ TickersOf(current_holdings),
                        previous_data.holdings)
        /\ Listed(comparison.new_holdings) \cap Listed(comparison.removed_holdings) = {}

\* a new ticker that two rows of current carry under different names, and
\* a removed one
C1_Witness ==
    /\ Compared
    /\ comparison.removed_holdings # <<>>
    /\ \E i, j \in FullRows(current_holdings) :
           /\ i < j
           /\ current_holdings[i][1] = current_holdings[j][1]
           /\ current_holdings[i][2] # current_holdings[j][2]
           /\ current_holdings[i][1] \in Listed(comparison.new_holdings)

\* the weight a field stands for, in units of 1 / Scale, when it is a number
IsNumber(weight) == weight.kind # "bad"
DecimalOf(weight) == IF weight.kind = "empty" THEN 0 ELSE weight.n
Distance(a, b) == IF a < b THEN b - a ELSE a - b

ChangesOf(ticker) ==
    {i \in DOMAIN comparison.weight_changes : comparison.weight_changes[i].ticker = ticker}

\* C2: a ticker of both snapshots whose two weights are numbers has a
\* weight_changes entry if and only if the weights differ by more than 0.01,
\* and the entry's change has the sign of current - previous; a difference
\* of exactly 0.01 gives no entry.
C2_ThresholdIsExact ==
    Compared =>
        \A ticker \in TickersOf(current_holdings) \cap TickersOf(previous_data.holdings) :
            LET curr == LastRow(current_holdings, ticker)[3]
                prev == LastRow(previous_data.holdings, ticker)[3]
            IN  (IsNumber(curr) /\ IsNumber(prev)) =>
                    /\ (ChangesOf(ticker) # {})
                           <=> (Distance(DecimalOf(curr), DecimalOf(prev)) > Hundredth)
                    /\ \A i \in ChangesOf(ticker) :
                           comparison.weight_changes[i].change.neg
                               <=> (DecimalOf(curr) < DecimalOf(prev))

\* C3: a holdings list compared with a previous snapshot of the same
\* holdings gives a success with nothing new, nothing removed, no weight
\* change and significant_changes = 0.
C3_SameHoldings ==
    (Compared /\ previous_data.holdings = current_holdings) =>
        /\ comparison.status = "success"
        /\ comparison.new_holdings = <<>>
        /\ comparison.removed_holdings = <<>>
        /\ comparison.weight_changes = <<>>
        /\ comparison.significant_changes = 0

\* the same list on both sides, with a ticker twice, or a short row, next
\* to a weight that parses to more than the threshold
C3_Witness ==
    /\ Compared
    /\ previous_data.holdings = current_holdings
    /\ Len(current_holdings) >= 2
    /\ \E i \in FullRows(current_holdings) :
           IsNumber(current_holdings[i][3]) /\ DecimalOf(current_holdings[i][3]) > Hundredth
    /\ \/ FullRows(current_holdings) # DOMAIN current_holdings
       \/ Cardinality(TickersOf(current_holdings)) < Len(current_holdings)

\* where the loop met the ticker
Encounter(ticker) == CHOOSE i \in DOMAIN iter.common : iter.common[i] = ticker

AbsChange(i) == FloatAbs(comparison.weight_changes[i].change)

\* C4: weight_changes is in non-increasing order of |change|, and entries
\* of equal |change| are in the order in which the loop met them.
C4_SortedStable ==
    (Compared /\ comparison.status = "success") =>
        \A i, j \in DOMAIN comparison.weight_changes :
            i < j =>
                /\ ~FloatLess(AbsChange(i), AbsChange(j))
                /\ AbsChange(i) = AbsChange(j) =>
                       Encounter(comparison.weight_changes[i].ticker)
                           < Encounter(comparison.weight_changes[j].ticker)

\* three changes, the largest met last, the two others equal
C4_Witness ==
    /\ Compared
    /\ Len(comparison.weight_changes) = 3
    /\ AbsChange(2) = AbsChange(3)
    /\ FloatLess(AbsChange(2), AbsChange(1))
    /\ Encounter(comparison.weight_changes[1].ticker) = 3

\* a snapshot and a holdings list without their rows of fewer than 3 fields
WithoutShortRows(holdings) == SelectSeq(holdings, LAMBDA h : Len(h) >= 3)

\* C5: rows of fewer than 3 fields change no field of the result: it is the
\* result of comparing the two snapshots without these rows.
C5_ShortRowsChangeNothing ==
    Compared =>
        comparison = compare_holdings(
                        WithoutShortRows(current_holdings),
                        Snapshot(previous_data.date, WithoutShortRows(previous_data.holdings)),
                        DateStr(today), iter)
(***************************************************************************)
(* Properties of the store and of whole runs, stated on the days of the    *)
(* files, not on the order of their names.                                 *)
(***************************************************************************)
HasSnapshot(dir, day) == \E f \in dir : f.name = HoldingsName(DateStr(day))
SnapshotOf(dir, day) == (CHOOSE f \in dir : f.name = HoldingsName(DateStr(day))).content
SnapshotDays(dir) == {day \in Days : HasSnapshot(dir, day)}
Latest(days) == CHOOSE d \in days : \A e \in days : e <= d

\* the day of the file before the newest, when there are two files
PriorDay(dir) == Latest(SnapshotDays(dir) \ {Latest(SnapshotDays(dir))})

\* C6: load_previous_holdings returns the content of the file that is
\* second when the files are taken from the newest day to the oldest (when
\* that file can be read), returns no previous data when fewer than two
\* files exist, and never returns the newest file.
C6_SecondNewest ==
    pc = "load" =>
        IF Cardinality(SnapshotDays(data_dir)) < 2
        THEN previous_data = None
        ELSE /\ SnapshotOf(data_dir, PriorDay(data_dir)) # Corrupt
                  => previous_data = SnapshotOf(data_dir, PriorDay(data_dir))
             /\ previous_data # None
                  => previous_data.date # DateStr(Latest(SnapshotDays(data_dir)))

\* three readable files: the one of the middle day is returned
C6_Witness ==
    /\ pc = "load"
    /\ SnapshotDays(data_dir) = Days
    /\ previous_data # None
    /\ previous_data.date = DateStr(FirstDay + 1)
    /\ SnapshotOf(data_dir, FirstDay) # Corrupt
    /\ SnapshotOf(data_dir, MaxDay) # Corrupt

Ran == pc = "main" /\ comparison # None
SavedDay == CHOOSE d \in Days : saved_file = HoldingsName(DateStr(d))
EarlierDays == {d \in SnapshotDays(data_dir) : d < SavedDay}

\* C7: over runs on non-decreasing days, some failing to fetch, the
\* directory holds one snapshot file per day at most, the file of the day
\* of a successful run holds what that run fetched, and the run compared
\* with the snapshot of the latest strictly earlier day that has one (so not
\* with the file it wrote, nor with an earlier run of its day), taking the
\* first-run path exactly when there is no such day.
C7_PriorDay ==
    /\ \A f, g \in data_dir : f.name = g.name => f = g
    /\ Ran =>
        /\ \E d \in Days : saved_file = HoldingsName(DateStr(d))
        /\ SnapshotOf(data_dir, SavedDay) = Snapshot(DateStr(SavedDay), current_holdings)
        /\ IF EarlierDays = {}
           THEN previous_data = None /\ comparison.status = "first_run"
           ELSE /\ previous_data = SnapshotOf(data_dir, Latest(EarlierDays))
                /\ previous_data.date # saved_file.date
                /\ comparison.status = "success"
                /\ comparison.previous_date = DateStr(Latest(EarlierDays))

\* a run on the third day, after runs on the two days before (the names
\* 09 and 10 among them), that fetched something else than the day before
C7_Witness ==
    /\ Ran
    /\ SavedDay = MaxDay
    /\ SnapshotDays(data_dir) = Days
    /\ comparison.status = "success"
    /\ previous_data.holdings # current_holdings

\* no previous data is at hand: at most one snapshot file, or the file
\* before the newest cannot be read
NoPrevious(dir) ==
    \/ Cardinality(SnapshotDays(dir)) < 2
    \/ SnapshotOf(dir, PriorDay(dir)) = Corrupt

\* C8: when no previous data is at hand, nothing is raised and the run goes
\* on: load_previous_holdings returns nothing, compare_holdings returns the
\* first-run result with total_holdings the number of current rows, and the
\* run still produces and saves a report.
C8_NoPreviousData ==
    /\ (pc = "load" /\ NoPrevious(data_dir)) => previous_data = None
    /\ (pc = "main" /\ current_holdings # <<>> /\ NoPrevious(data_dir)) =>
          /\ previous_data = None
          /\ comparison # None
          /\ comparison.status = "first_run"
          /\ comparison.total_holdings = Len(current_holdings)
          /\ report # None
          /\ [name |-> ReportName(DateStr(today)), content |-> report] \in data_dir
          /\ exit_msg = "success"

\* a run that found an unreadable file before the one it wrote, and
\* fetched a row of fewer than 3 fields
C8_Witness ==
    /\ pc = "main"
    /\ current_holdings # <<>>
    /\ Cardinality(SnapshotDays(data_dir)) >= 2
    /\ SnapshotOf(data_dir, PriorDay(data_dir)) = Corrupt
    /\ FullRows(current_holdings) # DOMAIN current_holdings
    /\ report # None

\* the fetch fails: an exception, a status other than 200, a body that is
\* no JSON, no data array or an empty one
FetchFails(resp) ==
    \/ resp = Raised
    \/ /\ resp # Raised
       /\ \/ resp.status_code # 200
          \/ resp.body = NotJson
          \/ /\ resp.body # NotJson
             /\ \/ ~resp.body.has_aaData
                \/ resp.body.has_aaData /\ resp.body.aaData = <<>>

\* C9: a run whose fetch fails sends its one request, returns no
\* comparison, leaves every file of the data directory as it was, and main
\* ends on the warning.
C9_FailedFetch ==
    [][(pc' = "main" /\ response' # None /\ FetchFails(response')) =>
          /\ data_dir' = data_dir
          /\ comparison' = None
          /\ report' = None
          /\ requests' = 1
          /\ exit_msg' = "warning"]_vars

\* a failed run (a 404 that carries holdings) after a run that wrote files
C9_Witness ==
    /\ pc = "main"
    /\ response = NotFound
    /\ comparison = None
    /\ exit_msg = "warning"
    /\ SnapshotDays(data_dir) # {}

(***************************************************************************)
(* Properties of generate_report.                                          *)
(***************************************************************************)
Reported == pc = "report" /\ comparison.status = "success"
Has(tag) == \E i \in DOMAIN report.lines : report.lines[i].tag = tag
NoBlock == ~Has("new_header") /\ ~Has("removed_header") /\ ~Has("weight_header")
CountsItsLists ==
    comparison.significant_changes =
        Len(comparison.new_holdings) + Len(comparison.removed_holdings)
            + Len(comparison.weight_changes)

====
